---- MODULE Spec2Model ----
(***************************************************************************)
(* MiniSynth (src/main.rs): a sine oscillator (SineDecoder) whose          *)
(* SynthParams are sent by the control system update_freq through a        *)
(* crossbeam_channel::bounded(1) channel and received with try_recv at the *)
(* start of every SineDecoder::next.                                       *)
(*                                                                         *)
(* Numbers.  The f32 values are kept as exact fractions with fixed         *)
(* denominators:                                                           *)
(*   frequency        numerator over Height            (Hz)                *)
(*   volume           numerator over 2 * Height                            *)
(*   distortion       numerator over Width                                 *)
(*   current_progress numerator over Height*SampleRate (turns)             *)
(*   sin(..)          numerator over SinScale                              *)
(*   sample           numerator over SinScale * Width * 2 * Height         *)
(* f32 rounding, infinities and NaN are not represented.                   *)
(***************************************************************************)
EXTENDS Integers, Sequences, FiniteSets, TLC

\* ---------------------------------------------------------------- bounds
\* Window resolution in pixels (q_windows.single().resolution).
Width == 4
Height == 4
\* Runs of the update_freq system.
MaxTicks == 2
\* Calls of SineDecoder::next, over all decoders.
MaxPulls == 3
\* Calls of SynthAudio::decoder.
MaxDecoders == 2
\* Resolution of the sine values.
SinScale == 1000

\* ------------------------------------------------------ program constants
SampleRate == 44100
\* crossbeam_channel::bounded(1)
Capacity_two == 1 + 1

Capacity_zero == 1 - 1

Capacity == 1

\* Denominator of current_progress: one turn.
Turn == Height * SampleRate

\* ------------------------------------------------------------ arithmetic
Abs(x) == IF x < 0 THEN -x ELSE x

\* Rust's % on f32 (fmod): truncated remainder, the result has the sign of
\* the dividend.
FRem(a, m) == IF a >= 0 THEN a % m ELSE -((-a) % m)

\* f32::clamp
clamp_upper(x, lo, hi) == IF x > hi THEN hi ELSE x

clamp(x, lo, hi) == IF x < lo THEN lo ELSE IF x > hi THEN hi ELSE x

\* f32::sin(self.period * progress), period = 2*PI: the sine of `p` turns
\* (p a numerator over Turn, -Turn < p < Turn), as a numerator over
\* SinScale.  Bhaskara's rational approximation on whole degrees of the half
\* turn; odd, zero at 0, within [-SinScale, SinScale].
HalfSin(deg) == (4 * deg * (180 - deg) * SinScale) \div (40500 - deg * (180 - deg))

sin(p) ==
    LET a == Abs(p)
        half == Turn \div 2
        h == IF a < half THEN a ELSE a - half
        v == HalfSin((h * 180) \div half)
        pos == IF a < half THEN v ELSE -v
    IN  IF p < 0 THEN -pos ELSE pos

\* ------------------------------------------------------------------ data
\* struct SynthParams
SynthParams(f, v, d) == [frequency |-> f, volume |-> v, distortion |-> d]

\* setup: initial_params = { frequency: 440.0, volume: 0.5, distortion: 0.0 }
initial_params == SynthParams(440 * Height, Height, 0)

\* Cursor positions (pixels) the window can report to update_freq; the
\* system applies no range check, so positions outside the window area
\* (reported while the pointer is dragged out of it) are included.
CursorPositions ==
    { <<0, Height \div 2>>,                 \* left edge, mid height:
                                             \* frequency 440, volume 1,
                                             \* distortion 0
      <<Width, Height>>,                     \* bottom-right: frequency 0
      <<Width + Width \div 2, Height + Height \div 2>>, \* right and below:
                                             \* negative frequency
      <<50 * Width, -(50 * Height)>>,        \* far away: large magnitudes,
                                             \* negative volume
      <<50 * Width, Height + Height \div 2>> }  \* far right and below

\* cursor_position() = None
None == <<>>

\* update_freq, line 145-150: the SynthParams computed from the position.
new_params(position) ==
    LET x == position[1]
        y == position[2]
    IN  SynthParams((Height - y) * 880,
                    Height + 2 * y,
                    Width - Abs(2 * x - Width))

VARIABLES
    chan,        \* the bounded(1) channel: queue of [id, params]; id is the
                 \* history tag of the message, its index in `published`
    decoders,    \* the SineDecoders created so far (sequence of records)
    ticks,       \* runs of update_freq so far
    published,   \* history: every try_send, [params, accepted], in order
    trace,       \* history, per decoder: pulls, adopted ids, last sample,
                 \* steady: every pull so far used the same SynthParams
    nPulls,      \* history: calls of next so far
    pullPubs,    \* history: Len(published) at the last two calls of next
    last         \* history: the last operation performed

vars == <<chan, decoders, ticks, published, trace, nPulls, pullPubs, last>>

\* ------------------------------------------------------------- channel
\* Sender::try_send on a blocking-free bounded channel: [ok, q]; Err(Full)
\* leaves the queue as it is.
try_send_grow(q, msg) == [ok |-> TRUE, q |-> Append(q, msg)]

try_send_overwrite(q, msg) ==
    [ok |-> TRUE, q |-> IF Len(q) < Capacity THEN Append(q, msg) ELSE <<msg>>]

try_send(q, msg) ==
    IF Len(q) < Capacity THEN [ok |-> TRUE, q |-> Append(q, msg)]
    ELSE [ok |-> FALSE, q |-> q]

\* Receiver::try_recv: [ok, msg, q]; Err(Empty) leaves the queue as it is.
try_recv_peek(q) ==
    IF Len(q) > 0 THEN [ok |-> TRUE, msg |-> Head(q), q |-> q]
    ELSE [ok |-> FALSE, msg |-> <<>>, q |-> q]

try_recv_lose(q) ==
    IF Len(q) > 0 THEN [ok |-> FALSE, msg |-> <<>>, q |-> Tail(q)]
    ELSE [ok |-> FALSE, msg |-> <<>>, q |-> q]

try_recv_torn(q) ==
    IF Len(q) > 0
    THEN [ok |-> TRUE,
          msg |-> [Head(q) EXCEPT !.params.distortion = initial_params.distortion],
          q |-> Tail(q)]
    ELSE [ok |-> FALSE, msg |-> <<>>, q |-> q]

try_recv(q) ==
    IF Len(q) > 0 THEN [ok |-> TRUE, msg |-> Head(q), q |-> Tail(q)]
    ELSE [ok |-> FALSE, msg |-> <<>>, q |-> q]

\* ------------------------------------------------------------- decoder
\* SineDecoder::new
new_default ==
    [current_params |-> SynthParams(0, 0, 0),
     current_progress |-> 0,
     sample_rate |-> SampleRate]

new ==
    [current_params |-> initial_params,
     current_progress |-> 0,
     sample_rate |-> SampleRate]

\* next, line 58-60: progress += frequency / sample_rate; progress %= 1.
advance_none(progress, params, sample_rate) == progress

advance(progress, params, sample_rate) ==
    FRem(progress + params.frequency, Height * sample_rate)

\* next, line 61: act_dist = (distortion + 1.0) * 2.0, numerator over Width
act_dist_unshifted(params) == params.distortion * 2

act_dist(params) == (params.distortion + Width) * 2

\* next, line 64-70: clamp(sin(period * progress) * act_dist, -1, 1) * vol
sample(progress, params) ==
    clamp(sin(progress) * act_dist(params),
          -(SinScale * Width), SinScale * Width) * params.volume

\* ---------------------------------------------------------------- Init
\* State after setup: an empty channel, no decoder yet.
Init ==
    /\ chan = <<>>
    /\ decoders = <<>>
    /\ ticks = 0
    /\ published = <<>>
    /\ trace = <<>>
    /\ nPulls = 0
    /\ pullPubs = <<0, 0>>
    /\ last = [op |-> "setup", d |-> 0]

\* ------------------------------------------------------------- actions
\* SynthAudio::decoder: a fresh SineDecoder on a clone of the receiver.
decoder_reset ==
    /\ Len(decoders) < MaxDecoders
    /\ decoders' = [d \in 1..(Len(decoders) + 1) |-> new]
    /\ trace' = Append(trace, [pulls |-> 0, adopted |-> <<>>, out |-> <<>>,
                               used |-> initial_params,
                               pubsAtPrev |-> 0, pubsAtPull |-> 0,
                               steady |-> TRUE])
    /\ last' = [op |-> "decoder", d |-> Len(decoders) + 1]
    /\ UNCHANGED <<chan, ticks, published, nPulls, pullPubs>>

decoder ==
    /\ Len(decoders) < MaxDecoders
    /\ decoders' = Append(decoders, new)
    /\ trace' = Append(trace, [pulls |-> 0, adopted |-> <<>>, out |-> <<>>,
                               used |-> initial_params,
                               pubsAtPrev |-> 0, pubsAtPull |-> 0,
                               steady |-> TRUE])
    /\ last' = [op |-> "decoder", d |-> Len(decoders) + 1]
    /\ UNCHANGED <<chan, ticks, published, nPulls, pullPubs>>

\* update_freq, line 145-155: try_send(new_params), the result is ignored.
publish_blocking(position) ==
    /\ Len(chan) < Capacity
    /\ chan' = Append(chan, [id |-> Len(published) + 1,
                             params |-> new_params(position)])
    /\ published' = Append(published,
                           [params |-> new_params(position), accepted |-> TRUE])
    /\ last' = [op |-> "sent", d |-> 0]

publish(position) ==
    LET r == try_send(chan, [id |-> Len(published) + 1,
                             params |-> new_params(position)])
    IN  /\ chan' = r.q
        /\ published' = Append(published,
                               [params |-> new_params(position), accepted |-> r.ok])
        /\ last' = [op |-> IF r.ok THEN "sent" ELSE "dropped", d |-> 0]

\* The update_freq system, one run; cursor is cursor_position().
update_freq_direct(cursor) ==
    /\ ticks < MaxTicks
    /\ ticks' = ticks + 1
    /\ IF cursor = None
       THEN /\ last' = [op |-> "nocursor", d |-> 0]
            /\ UNCHANGED <<chan, published, decoders>>
       ELSE /\ publish(cursor)
            /\ decoders' = [d \in 1..Len(decoders) |->
                   [decoders[d] EXCEPT !.current_params = new_params(cursor)]]
    /\ UNCHANGED <<trace, nPulls, pullPubs>>

update_freq(cursor) ==
    /\ ticks < MaxTicks
    /\ ticks' = ticks + 1
    /\ IF cursor = None
       THEN /\ last' = [op |-> "nocursor", d |-> 0]
            /\ UNCHANGED <<chan, published>>
       ELSE publish(cursor)
    /\ UNCHANGED <<decoders, trace, nPulls, pullPubs>>

\* SineDecoder::next on decoder d.
next(d) ==
    LET self == decoders[d]
        r == try_recv(chan)
        params == IF r.ok THEN r.msg.params ELSE self.current_params
        progress == advance(self.current_progress, params, self.sample_rate)
        t == trace[d]
    IN  /\ nPulls < MaxPulls
        /\ chan' = r.q
        /\ decoders' = [decoders EXCEPT ![d] =
                           [self EXCEPT !.current_params = params,
                                        !.current_progress = progress]]
        /\ trace' = [trace EXCEPT ![d] =
               [pulls |-> t.pulls + 1,
                adopted |-> IF r.ok THEN Append(t.adopted, r.msg.id)
                            ELSE t.adopted,
                out |-> <<sample(decoders'[d].current_progress,
                                 decoders'[d].current_params)>>,
                used |-> decoders'[d].current_params,
                pubsAtPrev |-> t.pubsAtPull,
                pubsAtPull |-> Len(published),
                steady |-> t.steady /\ (t.pulls = 0 \/
                               decoders'[d].current_params = t.used)]]
        /\ nPulls' = nPulls + 1
        /\ pullPubs' = <<pullPubs[2], Len(published)>>
        /\ last' = [op |-> "next", d |-> d]
        /\ UNCHANGED <<ticks, published>>

Next ==
    \/ decoder
    \/ \E cursor \in CursorPositions \cup {None} : update_freq(cursor)
    \/ \E d \in 1..Len(decoders) : next(d)

Spec == Init /\ [][Next]_vars

\* Receivers of the channel: SynthAudio.params_receiver and the clone held
\* by every decoder; never 0, so try_send cannot fail as Disconnected.
receivers == 1 + Len(decoders)

\* ------------------------------------------------------- history helpers
Range(q) == {q[i] : i \in 1..Len(q)}
Max(S) == CHOOSE m \in S : \A n \in S : n <= m
Decoders == 1..Len(decoders)
\* Publishes that found the slot empty, and those still in the channel.
AcceptedIds == {i \in 1..Len(published) : published[i].accepted}
PendingIds == {chan[i].id : i \in 1..Len(chan)}
PublishedParams == {published[i].params : i \in 1..Len(published)}
\* d is the decoder whose next has just returned.
JustPulled(d) == last.op = "next" /\ last.d = d

\* ------------------------------------------------------------------- C1
\* C1: no torn read.  The SynthParams a decoder computes a sample with is,
\* as a whole triple, initial_params or one of the published SynthParams
\* values, in every interleaving of update_freq and next.
NoTornRead ==
    \A d \in Decoders :
        /\ trace[d].used \in {initial_params} \cup PublishedParams
        /\ decoders[d].current_params = trace[d].used

\* A sample computed with a published value while two different values have
\* been published.
NoTornReadWitness ==
    \E d \in Decoders :
        /\ trace[d].pulls >= 2
        /\ trace[d].adopted # <<>>
        /\ Cardinality(PublishedParams) >= 2
        /\ trace[d].used # initial_params

\* ------------------------------------------------------------------- C2
\* C2: drop-if-full.  A publish performed while the slot holds an
\* unconsumed update is possible at once (try_send does not wait), ends
\* normally, leaves the pending update in the slot and leaves every decoder
\* (current_params, current_progress) as it was.
DropIfFull ==
    /\ [](Len(chan) = Capacity /\ ticks < MaxTicks
            => \A position \in CursorPositions : ENABLED update_freq(position))
    /\ [][Len(chan) = Capacity /\ Len(published') = Len(published) + 1
            => /\ chan' = chan
               /\ decoders' = decoders
               /\ ~published'[Len(published')].accepted
               /\ last'.op = "dropped"]_vars

\* A publish has just been dropped while a decoder exists, and its value
\* differs from the pending one.
DropIfFullWitness ==
    /\ last.op = "dropped"
    /\ Len(decoders) >= 1
    /\ Len(chan) = 1
    /\ chan[1].params # published[Len(published)].params

\* ------------------------------------------------------------------- C3
\* C3 as stated: once publish(p) has completed and a sample has been pulled
\* after it, every later sample pulled before the next publish is computed
\* with p.
VisibilityAsStated ==
    \A d \in Decoders :
        (trace[d].pulls >= 2 /\ trace[d].pubsAtPull >= 1
            /\ trace[d].pubsAtPrev = trace[d].pubsAtPull)
        => trace[d].used = published[trace[d].pubsAtPull].params

\* C3 amended: only a publish that found the slot empty becomes visible.
\* It is drained by the first pull after it; the decoder that drained it
\* computes its samples with it until that decoder drains a later accepted
\* publish; a publish that found the slot full is never used.
VisibilityOfAccepted ==
    /\ \A d \in Decoders :
         LET mine == Range(trace[d].adopted)
         IN  /\ mine \subseteq AcceptedIds \ PendingIds
             /\ trace[d].used = IF mine = {} THEN initial_params
                                ELSE published[Max(mine)].params
             /\ JustPulled(d) => chan = <<>>
    /\ UNION {Range(trace[d].adopted) : d \in Decoders} = AcceptedIds \ PendingIds

\* A decoder pulled twice after an accepted publish and a dropped one.
VisibilityOfAcceptedWitness ==
    \E d \in Decoders :
        /\ trace[d].pulls >= 2
        /\ trace[d].pubsAtPrev = trace[d].pubsAtPull
        /\ trace[d].adopted # <<>>
        /\ \E i \in 1..Len(published) : ~published[i].accepted

\* ------------------------------------------------------------------- C4
\* C4 as stated: after next, current_params is the most recently published
\* SynthParams, or initial_params when nothing was published, for every
\* decoder.
MostRecentAsStated ==
    \A d \in Decoders :
        JustPulled(d) =>
            decoders[d].current_params =
                IF published = <<>> THEN initial_params
                ELSE published[Len(published)].params

\* C4 amended: after next, current_params is the most recent accepted
\* publish this decoder has drained, or initial_params when it has drained
\* none; when there is only one decoder that is the most recent accepted
\* publish (dropped publishes do not count).
MostRecentAccepted ==
    \A d \in Decoders :
        JustPulled(d) =>
            /\ decoders[d].current_params =
                 IF trace[d].adopted = <<>> THEN initial_params
                 ELSE published[trace[d].adopted[Len(trace[d].adopted)]].params
            /\ Len(decoders) = 1 =>
                 decoders[d].current_params =
                     IF AcceptedIds = {} THEN initial_params
                     ELSE published[Max(AcceptedIds)].params

\* A second decoder has just pulled after the first one drained the only
\* accepted publish, and a publish was dropped.
MostRecentAcceptedWitness ==
    /\ Len(decoders) = 2
    /\ JustPulled(2)
    /\ trace[1].adopted # <<>>
    /\ trace[2].adopted = <<>>
    /\ \E i \in 1..Len(published) : ~published[i].accepted

\* ------------------------------------------------------------------- C5
\* C5 as stated: when two or more publishes occur between two consecutive
\* pulls, the pull after them adopts the most recent of them.
LatestWinsAsStated ==
    \A d \in Decoders :
        (JustPulled(d) /\ nPulls >= 2 /\ pullPubs[2] - pullPubs[1] >= 2)
        => trace[d].used = published[pullPubs[2]].params

\* C5 amended: when two or more publishes occur between two consecutive
\* pulls, the first of them is accepted, the later ones are dropped, and
\* the pull after them adopts the first.
EarliestWins ==
    \A d \in Decoders :
        (JustPulled(d) /\ nPulls >= 2 /\ pullPubs[2] - pullPubs[1] >= 2)
        => /\ trace[d].used = published[pullPubs[1] + 1].params
           /\ published[pullPubs[1] + 1].accepted
           /\ \A i \in (pullPubs[1] + 2)..pullPubs[2] : ~published[i].accepted

\* Two different values were published between two pulls.
EarliestWinsWitness ==
    /\ nPulls >= 2
    /\ last.op = "next"
    /\ pullPubs[2] - pullPubs[1] >= 2
    /\ published[pullPubs[1] + 1].params # published[pullPubs[2]].params

\* ------------------------------------------------------------------- C6
\* C6: publish-order observation.  The updates a decoder adopts are taken
\* from the published sequence in publish order: their indexes are strictly
\* increasing (none reordered, none adopted twice), and across decoders no
\* update is adopted twice.
PublishOrder ==
    /\ \A d \in Decoders :
         LET a == trace[d].adopted
         IN  /\ \A i \in 1..Len(a) : a[i] \in 1..Len(published)
             /\ \A i, j \in 1..Len(a) : i < j => a[i] < a[j]
    /\ \A d, e \in Decoders :
         d # e => Range(trace[d].adopted) \cap Range(trace[e].adopted) = {}

\* A decoder adopted two updates, one after the other.
PublishOrderWitness ==
    \E d \in Decoders :
        /\ Len(trace[d].adopted) = 2
        /\ published[trace[d].adopted[1]].params # published[trace[d].adopted[2]].params

\* ------------------------------------------------------------------- C7
\* C7: no mutual blocking.  In every reachable state the control loop can
\* run update_freq (with or without a cursor) and every decoder can run
\* next, whatever the slot holds; every call of next has returned a sample.
NoBlocking ==
    [](/\ ticks < MaxTicks =>
            /\ ENABLED (\E position \in CursorPositions : update_freq(position))
            /\ ENABLED update_freq(None)
       /\ \A d \in Decoders :
            /\ nPulls < MaxPulls => ENABLED next(d)
            /\ trace[d].pulls > 0 => Len(trace[d].out) = 1)

\* The slot is full, a decoder has pulled, and both loops can still step.
NoBlockingWitness ==
    /\ Len(chan) = Capacity
    /\ ticks < MaxTicks
    /\ nPulls < MaxPulls
    /\ \E d \in Decoders : trace[d].pulls > 0

\* ------------------------------------------------------------------- C8
\* C8: mailbox bound.  The channel never holds more than one pending
\* SynthParams, and one call of next removes at most one update from it.
MailboxBound ==
    /\ [](Len(chan) <= 1)
    /\ [][last'.op = "next" => Len(chan') >= Len(chan) - 1]_vars

\* A pull has just drained the full slot after a publish was dropped.
MailboxBoundWitness ==
    /\ last.op = "next"
    /\ chan = <<>>
    /\ trace[last.d].adopted # <<>>
    /\ \E i \in 1..Len(published) : ~published[i].accepted

\* ------------------------------------------------------------------- C9
\* C9: phase range.  After every call of next, whatever frequency was
\* published, current_progress is in [0, 1).
PhaseRange ==
    \A d \in Decoders :
        trace[d].pulls > 0 =>
            /\ 0 <= decoders[d].current_progress
            /\ decoders[d].current_progress < Height * decoders[d].sample_rate

\* ------------------------------------------------------------------ C10
\* C10: output bound.  Every emitted sample s satisfies
\* -|volume| <= s <= |volume| for the volume in current_params at that
\* pull, for all published frequency, volume and distortion values.
OutputBound ==
    \A d \in Decoders :
        trace[d].pulls > 0 =>
            LET s == trace[d].out[1]
                bound == Abs(decoders[d].current_params.volume) * SinScale * Width
            IN  -bound <= s /\ s <= bound

\* Samples were clipped at both ends, one of them with a negative volume.
OutputBoundWitness ==
    /\ \E d \in Decoders :
         /\ trace[d].pulls > 0
         /\ decoders[d].current_params.volume < 0
         /\ trace[d].out[1] = Abs(decoders[d].current_params.volume) * SinScale * Width
    /\ \E d \in Decoders :
         /\ trace[d].pulls > 0
         /\ decoders[d].current_params.volume > 0
         /\ sin(decoders[d].current_progress) < 0
         /\ trace[d].out[1] = decoders[d].current_params.volume * SinScale * Width

\* ------------------------------------------------------------------ C11
\* frequency = 440, volume = 1, distortion = 0
ExampleParams == SynthParams(440 * Height, 2 * Height, 0)

\* C11 as stated: the first sample of a fresh decoder working with
\* frequency 440, volume 1, distortion 0 is computed at phase 0 and is 0.
FirstSampleAsStated ==
    \A d \in Decoders :
        (trace[d].pulls = 1 /\ trace[d].used = ExampleParams)
        => /\ decoders[d].current_progress = 0
           /\ trace[d].out[1] = 0

\* C11 amended: next advances the phase before it takes the sine, so the
\* first sample of such a decoder is computed at phase 440/44100 and is
\* sin(2*PI*440/44100) * 2 * 1, a positive value below the volume.
FirstSampleAfterAdvance ==
    \A d \in Decoders :
        (trace[d].pulls = 1 /\ trace[d].used = ExampleParams)
        => /\ decoders[d].current_progress * SampleRate = 440 * Turn
           /\ trace[d].out[1] =
                 sin(decoders[d].current_progress) * 2 * Width * ExampleParams.volume
           /\ trace[d].out[1] > 0
           /\ trace[d].out[1] < ExampleParams.volume * SinScale * Width

\* A fresh decoder adopted the example values at its first pull.
FirstSampleWitness ==
    \E d \in Decoders :
        /\ trace[d].pulls = 1
        /\ trace[d].used = ExampleParams
        /\ Len(trace[d].adopted) = 1

\* ------------------------------------------------------------------ C12
\* C12: phase accumulation.  After N pulls of a fresh decoder that all
\* worked with the same frequency f, current_progress is
\* (N * f / sample_rate) mod 1.0, the value in [0, 1).
PhaseAccumulation ==
    \A d \in Decoders :
        trace[d].steady =>
            decoders[d].current_progress =
                (trace[d].pulls * decoders[d].current_params.frequency)
                    % (Height * decoders[d].sample_rate)

\* ------------------------------------------------------------------ C13
\* C13: distortion lower boundary.  Whenever current_params.distortion is
\* -1 the drive multiplier (distortion + 1) * 2 is 0 and the emitted sample
\* is 0, whatever the phase, frequency and volume.
DistortionFloor ==
    \A d \in Decoders :
        (trace[d].pulls > 0 /\ decoders[d].current_params.distortion = -Width)
        => /\ act_dist(decoders[d].current_params) = 0
           /\ trace[d].out[1] = 0

\* A sample was emitted with distortion -1 at a phase where the sine is not
\* 0, with a volume that is not 0.
DistortionFloorWitness ==
    \E d \in Decoders :
        /\ trace[d].pulls > 0
        /\ decoders[d].current_params.distortion = -Width
        /\ sin(decoders[d].current_progress) # 0
        /\ decoders[d].current_params.volume # 0

\* ------------------------------------------------------------------ C14
\* C14: restart.  Every decoder made by SynthAudio::decoder starts with
\* current_progress = 0 and current_params = initial_params, whatever was
\* published and pulled before, and making it leaves the existing decoders
\* (their phase included) as they were.
Restart ==
    [][Len(decoders') = Len(decoders) + 1
        => /\ decoders'[Len(decoders')].current_progress = 0
           /\ decoders'[Len(decoders')].current_params = initial_params
           /\ \A d \in Decoders : decoders'[d] = decoders[d]]_vars

\* A second decoder has just been made after the first one adopted an
\* update and moved its phase.
RestartWitness ==
    /\ last.op = "decoder"
    /\ Len(decoders) = 2
    /\ trace[1].adopted # <<>>
    /\ decoders[1].current_progress # 0
    /\ decoders[1].current_params # initial_params
    /\ decoders[2].current_progress = 0

\* ------------------------------------------------------------------ C15
\* C15: ownership.  A run of update_freq (update accepted or dropped)
\* leaves every decoder's current_params, current_progress and sample_rate
\* unchanged; a decoder's fields change only in its own next; its
\* current_params changes only in a next that takes an update out of the
\* channel; sample_rate is 44100 for ever.
Ownership ==
    /\ [](\A d \in Decoders : decoders[d].sample_rate = 44100)
    /\ [][/\ ticks' # ticks => \A d \in Decoders : decoders'[d] = decoders[d]
          /\ \A d \in Decoders :
               decoders'[d] # decoders[d] =>
                   /\ last'.op = "next" /\ last'.d = d
                   /\ nPulls' = nPulls + 1
                   /\ decoders'[d].current_params # decoders[d].current_params
                        => Len(chan') = Len(chan) - 1]_vars

\* A publish has just been dropped while a decoder that has pulled holds a
\* moved phase.
OwnershipWitness ==
    /\ last.op = "dropped"
    /\ \E d \in Decoders :
         /\ trace[d].pulls > 0
         /\ decoders[d].current_progress # 0

\* ------------------------------------------------------------------ C16
\* C16: bounded staleness.  With a single decoder, a publish that finds
\* the slot empty is adopted by the very next pull: after every pull the
\* slot is empty, the decoder has adopted every accepted publish, and the
\* sample was computed with the latest accepted one (initial_params when
\* there is none).
BoundedStaleness ==
    Len(decoders) = 1 =>
        LET drained == AcceptedIds \ PendingIds
        IN  /\ Range(trace[1].adopted) = drained
            /\ Len(trace[1].adopted) = Cardinality(drained)
            /\ JustPulled(1) =>
                 /\ PendingIds = {}
                 /\ trace[1].used = IF AcceptedIds = {} THEN initial_params
                                    ELSE published[Max(AcceptedIds)].params

\* The single decoder adopted an update and then pulled again without a
\* new one.
BoundedStalenessWitness ==
    /\ Len(decoders) = 1
    /\ JustPulled(1)
    /\ trace[1].pulls >= 2
    /\ Len(trace[1].adopted) = 1
    /\ trace[1].pubsAtPrev = trace[1].pubsAtPull
    /\ trace[1].used # initial_params

\* ------------------------------------------------------------------ C17
\* C17: a publish is dropped only when the slot is full.  Every try_send is
\* accepted exactly when the slot is empty, an accepted one is stored in the
\* slot, and the channel always has a receiver.
DroppedOnlyWhenFull ==
    /\ [](receivers >= 1)
    /\ [][Len(published') = Len(published) + 1
            => LET e == published'[Len(published')]
               IN  /\ e.accepted <=> chan = <<>>
                   /\ e.accepted =>
                        chan' = <<[id |-> Len(published'), params |-> e.params]>>
                   /\ ~e.accepted => chan' = chan]_vars

\* A second publish has just been accepted after a pull emptied the slot.
DroppedOnlyWhenFullWitness ==
    /\ last.op = "sent"
    /\ Len(published) = 2
    /\ published[1].accepted
    /\ nPulls >= 1

\* ------------------------------------------------------------------ C18
\* C18: shared receiver.  With two decoders on the same SynthAudio, every
\* update taken out of the channel was adopted by exactly one decoder, the
\* one whose next ran first after the publish; that next leaves the other
\* decoder, its current_params included, as it was.
SharedReceiver ==
    /\ [](\A i \in AcceptedIds \ PendingIds :
            Cardinality({d \in Decoders : i \in Range(trace[d].adopted)}) = 1)
    /\ [][\A d \in Decoders :
            (last'.op = "next" /\ last'.d = d /\ nPulls' = nPulls + 1)
            => /\ chan # <<>> =>
                    /\ decoders'[d].current_params = Head(chan).params
                    /\ chan' = <<>>
               /\ \A e \in Decoders \ {d} :
                    decoders'[e] = decoders[e] /\ trace'[e] = trace[e]]_vars

\* Decoder 1 adopted an update; decoder 2 pulled after that publish and
\* still works with initial_params.
SharedReceiverWitness ==
    /\ Len(decoders) = 2
    /\ trace[1].adopted # <<>>
    /\ decoders[1].current_params # initial_params
    /\ trace[2].pulls > 0
    /\ trace[2].pubsAtPull >= 1
    /\ trace[2].adopted = <<>>
    /\ decoders[2].current_params = initial_params

\* ------------------------------------------------------------------ C19
\* The two loops running for ever, with one decoder playing.  The same
\* steps as update_freq and next, without the run counters and the publish
\* history, so that the loops never stop.
LivePositions ==
    { <<Width, Height>>, <<50 * Width, -(50 * Height)>> }

InitLive ==
    /\ chan = <<>>
    /\ decoders = <<new>>
    /\ ticks = 0
    /\ published = <<>>
    /\ trace = <<[pulls |-> 0, adopted |-> <<>>, out |-> <<>>,
                  used |-> initial_params,
                  pubsAtPrev |-> 0, pubsAtPull |-> 0, steady |-> TRUE]>>
    /\ nPulls = 0
    /\ pullPubs = <<0, 0>>
    /\ last = [op |-> "decoder", d |-> 1]

\* update_freq, one run of the control loop.
live_update_freq(cursor) ==
    /\ IF cursor = None
       THEN /\ last' = [op |-> "nocursor", d |-> 0]
            /\ UNCHANGED chan
       ELSE LET r == try_send(chan, [id |-> 0, params |-> new_params(cursor)])
            IN  /\ chan' = r.q
                /\ last' = [op |-> IF r.ok THEN "sent" ELSE "dropped", d |-> 0]
    /\ UNCHANGED <<decoders, ticks, published, trace, nPulls, pullPubs>>

\* SineDecoder::next, one pull of the audio loop.
live_next(d) ==
    LET self == decoders[d]
        r == try_recv(chan)
        params == IF r.ok THEN r.msg.params ELSE self.current_params
        progress == advance(self.current_progress, params, self.sample_rate)
    IN  /\ chan' = r.q
        /\ decoders' = [decoders EXCEPT ![d] =
                           [self EXCEPT !.current_params = params,
                                        !.current_progress = progress]]
        /\ trace' = [trace EXCEPT ![d] =
               [@ EXCEPT !.pulls = 1,
                         !.out = <<sample(decoders'[d].current_progress,
                                          decoders'[d].current_params)>>,
                         !.used = decoders'[d].current_params]]
        /\ last' = [op |-> "next", d |-> d]
        /\ UNCHANGED <<ticks, published, nPulls, pullPubs>>

LivePublish == \E position \in LivePositions : live_update_freq(position)

NextLive ==
    \/ LivePublish
    \/ live_update_freq(None)
    \/ live_next(1)

\* The control loop keeps publishing and the audio loop keeps pulling.
SpecLive ==
    /\ InitLive
    /\ [][NextLive]_vars
    /\ WF_vars(LivePublish)
    /\ WF_vars(live_next(1))

\* C19: no update starvation.  When the control loop publishes for ever
\* and the audio loop pulls for ever, publishes are accepted again and
\* again (so the slot is emptied again and again), and an update leaves the
\* slot only by being adopted into current_params.
NoStarvation ==
    /\ []<>(last.op = "sent")
    /\ [][(chan # <<>> /\ chan' # chan)
            => /\ chan' = <<>>
               /\ last'.op = "next"
               /\ decoders'[last'.d].current_params = chan[1].params]_vars

\* A publish has just been accepted while the decoder works with an
\* update it adopted earlier.
NoStarvationWitness ==
    /\ last.op = "sent"
    /\ ticks = 0
    /\ trace[1].pulls = 1
    /\ decoders[1].current_params # initial_params
    /\ chan[1].params # decoders[1].current_params

====
